---------------------------- MODULE Spec2Model ----------------------------
(***************************************************************************)
(* Particle Swarm Optimization module (src/pso.c, src/pso.h).              *)
(*                                                                         *)
(* One call of an entry point (pso3dim, psondim, pso3dim_static,           *)
(* pso3dim_static_opt) is modelled step by step: the allocations, the      *)
(* initialisation of every particle, the evaluation of every particle and  *)
(* the update of every particle of every iteration, and the return.        *)
(*                                                                         *)
(* A second call (the twin) is run in lock step on the same sequence of    *)
(* values of rand() and the same arguments, so that two calls can be       *)
(* compared state by state.                                                *)
(*                                                                         *)
(* Numbers.  A double x is represented by the integer x * Unit; every      *)
(* multiplication and division rounds its exact result to the nearest      *)
(* representable value, as a floating-point operation does, with a         *)
(* resolution of 1/Unit instead of 2^-52 relative.  Additions, subtractions *)
(* and comparisons are exact.                                              *)
(***************************************************************************)
EXTENDS Integers, Sequences, FiniteSets, TLC

(***************************************************************************)
(* Bounds of the model.                                                    *)
(***************************************************************************)
\* resolution of the number representation: the value x is the integer x*Unit
Unit == 20
\* rand() returns a value of 0..RAND_MAX
RAND_MAX == 2
\* largest particle_am of a call of pso3dim and psondim
MaxParticles == 2
\* largest max_iter of a call
MaxIter == 2

(***************************************************************************)
(* Program constants.                                                      *)
(***************************************************************************)
\* how many particles pso3dim_static and pso3dim_static_opt use
PSO3DIM_STATIC_PARTICLES == 20
\* DBL_MAX of <float.h>: the largest finite double, above every other value
DBL_MAX == 1000000
COEFF_W == (50 * Unit) \div 100
COEFF_CP == (205 * Unit) \div 100
COEFF_CG == (205 * Unit) \div 100

(***************************************************************************)
(* Arithmetic on the representation.                                       *)
(***************************************************************************)
Abs(x) == IF x < 0 THEN -x ELSE x

Sgn(x) == IF x < 0 THEN -1 ELSE IF x > 0 THEN 1 ELSE 0

\* a / b for integers, b # 0, rounded to the nearest integer
RoundDiv(a, b) == Sgn(a) * Sgn(b) * ((2 * Abs(a) + Abs(b)) \div (2 * Abs(b)))

\* x * y of two doubles
FMul(x, y) == RoundDiv(x * y, Unit)

\* x / y of two doubles, y # 0
FDiv(x, y) == RoundDiv(x * Unit, y)

\* the macro random_double(min, max) when rand() returns r:
\*   min + (rand() / (RAND_MAX / (max - min)))
\* RAND_MAX / 0.0 is +infinity, and rand() / +infinity is 0.
\* A quotient RAND_MAX / (max - min) that rounds to 0 makes the second
\* division one by zero; the calls of the model keep max - min small enough.
random_double(min, max, r) ==
    IF max - min = 0 THEN min
    ELSE LET q == FDiv(RAND_MAX * Unit, max - min)
         IN  IF q = 0 THEN min + Sgn(max - min) * DBL_MAX
             ELSE min + FDiv(r * Unit, q)

(***************************************************************************)
(* The caller's functions.                                                 *)
(***************************************************************************)
\* the sum of the entries of a vector
RECURSIVE VecSum(_)
VecSum(v) == IF v = << >> THEN 0 ELSE Head(v) + VecSum(Tail(v))

\* fit_func: "is a better than b".  less_than is the one of main.c; the
\* other two are a maximising and a non-strict minimising fitness function.
Fitnesses == {"less_than", "greater_than", "less_equal"}

fitness(fit, a, b) ==
    CASE fit = "less_than" -> a < b
      [] fit = "greater_than" -> a > b
      [] fit = "less_equal" -> a <= b

StrictFitnesses == {"less_than", "greater_than"}

\* func3dim / funcndim: the optimised function, a total function of the
\* position.  sphere is the sum of the squares of the coordinates; barrier is
\* the sum of the coordinates where the first coordinate is at most 0 and
\* DBL_MAX (a penalty) elsewhere.
Functions == {"sphere", "barrier"}

function(f, pos) ==
    CASE f = "sphere" -> VecSum([k \in 1..Len(pos) |-> FMul(pos[k], pos[k])])
      [] f = "barrier" -> IF pos[1] > 0 THEN DBL_MAX ELSE VecSum(pos)

(***************************************************************************)
(* Particles.                                                              *)
(***************************************************************************)
\* TParticle3Dim / TParticle whose memory was never written: every cell
\* holds whatever the memory held, the value j
TParticle(coords, j) ==
    [velocity |-> [k \in 1..coords |-> j], position |-> [k \in 1..coords |-> j],
     best_pos |-> [k \in 1..coords |-> j], best_val |-> j]

\* init_particle3dim(p, bounds), r the four values rand() returns, in order
init_particle3dim(p, bounds, r) ==
    LET pos == << random_double(bounds[1][1], bounds[1][2], r[3]),
                  random_double(bounds[2][1], bounds[2][2], r[4]) >>
    IN  [p EXCEPT !.velocity = << random_double(-Unit, Unit, r[1]),
                                  random_double(-Unit, Unit, r[2]) >>,
                  !.position = pos,
                  !.best_pos = pos]

\* init_particlendim(p, bounds, coords), r the 2*coords values of rand()
init_particlendim(p, bounds, coords, r) ==
    [p EXCEPT !.velocity = [k \in 1..coords |-> random_double(-Unit, Unit, r[2 * k - 1])],
              !.position = [k \in 1..coords |->
                                random_double(bounds[k][1], bounds[k][2], r[2 * k])]]

\* the initialisation loop body of pso3dim_static_opt
init_particle_opt(p, bounds, r) ==
    LET pos == << random_double(bounds[1][1], bounds[1][2], r[3]),
                  random_double(bounds[2][1], bounds[2][2], r[4]) >>
    IN  [p EXCEPT !.velocity = << random_double(-Unit, Unit, r[1]),
                                  random_double(-Unit, Unit, r[2]) >>,
                  !.position = pos,
                  !.best_pos = pos]

\* the bounds check of one coordinate
clamp(x, min, max) == IF x < min THEN min ELSE IF x > max THEN max ELSE x

\* the new velocity of one coordinate
new_velocity(v, rp, rg, pos_diff) ==
    FMul(COEFF_W, v) + FMul(rp, pos_diff) + FMul(rg, pos_diff)

\* an update that reflects the particle at the bounds: the velocity of a
\* coordinate that was clamped is inverted
update_particle3dim_reflect(p, bounds, best_pos, r) ==
    LET rp == FMul(random_double(0, Unit, r[1]), COEFF_CP)
        rg == FMul(random_double(0, Unit, r[2]), COEFF_CG)
        v == [k \in 1..2 |->
                 new_velocity(p.velocity[k], rp, rg, best_pos[k] - p.position[k])]
        pos == [k \in 1..2 |-> clamp(p.position[k] + v[k], bounds[k][1], bounds[k][2])]
    IN  [p EXCEPT !.velocity = [k \in 1..2 |->
                                   IF pos[k] = p.position[k] + v[k] THEN v[k] ELSE -v[k]],
                  !.position = pos]

\* update_particle3dim(p, bounds, best_pos), r the two values of rand()
update_particle3dim(p, bounds, best_pos, r) ==
    LET rp == FMul(random_double(0, Unit, r[1]), COEFF_CP)
        rg == FMul(random_double(0, Unit, r[2]), COEFF_CG)
        pos_diff0 == best_pos[1] - p.position[1]
        pos_diff1 == best_pos[2] - p.position[2]
        v0 == new_velocity(p.velocity[1], rp, rg, pos_diff0)
        v1 == new_velocity(p.velocity[2], rp, rg, pos_diff1)
    IN  [p EXCEPT !.velocity = << v0, v1 >>,
                  !.position = << clamp(p.position[1] + v0, bounds[1][1], bounds[1][2]),
                                  clamp(p.position[2] + v1, bounds[2][1], bounds[2][2]) >>]

\* update_particlendim(p, bounds, best_pos, coords)
update_particlendim(p, bounds, best_pos, coords, r) ==
    LET rp == FMul(random_double(0, Unit, r[1]), COEFF_CP)
        rg == FMul(random_double(0, Unit, r[2]), COEFF_CG)
        v == [k \in 1..coords |->
                 new_velocity(p.velocity[k], rp, rg, best_pos[k] - p.position[k])]
    IN  [p EXCEPT !.velocity = v,
                  !.position = [k \in 1..coords |->
                                   clamp(p.position[k] + v[k], bounds[k][1], bounds[k][2])]]

\* the update loop body of pso3dim_static_opt
update_particle_opt(p, bounds, best_pos, r) ==
    LET rp == FMul(random_double(0, Unit, r[1]), COEFF_CP)
        rg == FMul(random_double(0, Unit, r[2]), COEFF_CG)
        pos_diff0 == best_pos[1] - p.position[1]
        pos_diff1 == best_pos[2] - p.position[2]
        v0 == new_velocity(p.velocity[1], rp, rg, pos_diff0)
        v1 == new_velocity(p.velocity[2], rp, rg, pos_diff1)
    IN  [p EXCEPT !.velocity = << v0, v1 >>,
                  !.position = << clamp(p.position[1] + v0, bounds[1][1], bounds[1][2]),
                                  clamp(p.position[2] + v1, bounds[2][1], bounds[2][2]) >>]

(***************************************************************************)
(* The state of a call.                                                    *)
(***************************************************************************)
VARIABLES
    call,    \* the arguments: function, bounds, dimensions, fitness, particle_am, max_iter
    tape,    \* the values rand() returns, a periodic sequence
    rnd,     \* how many values of the tape have been consumed (modulo TapeLen)
    pc,      \* the statement the call is at
    i,       \* the particle index of the running loop (i or a in the source)
    iter,    \* the iteration index (i of the iteration loop)
    run,     \* the call's memory: entry, swarm, best_pos, best_value, result
    twin,    \* the memory of the twin call, run in lock step
    heap,    \* the blocks malloc returned and the blocks passed to free, in order
    ghost    \* history: counts of writes, evaluations and updates, values observed

vars == << call, tape, rnd, pc, i, iter, run, twin, heap, ghost >>

Entries == {"pso3dim", "psondim", "pso3dim_static", "pso3dim_static_opt"}

Static(entry) == entry \in {"pso3dim_static", "pso3dim_static_opt"}

\* the call and the twin call that are run side by side
EntryPairs ==
    { << "pso3dim", "pso3dim" >>, << "pso3dim", "psondim" >>, << "psondim", "psondim" >>,
      << "pso3dim_static", "pso3dim_static" >>,
      << "pso3dim_static_opt", "pso3dim_static_opt" >> }

\* the bounds of the calls: a proper box, a box with a degenerate second
\* coordinate (min = max), and a malformed box (min > max in the first one)
BoundsSet ==
    { << << -Unit, 2 * Unit >>, << -Unit, 2 * Unit >> >>,
      << << -Unit, Unit >>, << Unit \div 2, Unit \div 2 >> >>,
      << << Unit, -Unit >>, << 0, Unit >> >> }

WellFormed(bounds, coords) ==
    /\ coords <= Len(bounds)
    /\ \A k \in 1..coords : bounds[k][1] <= bounds[k][2]

\* the period of the random source
TapeLen == RAND_MAX + 1

\* the sequences the random source may deliver: periodic, every period an
\* arrangement of the values 0..RAND_MAX in any order
Tapes == {t \in [1..TapeLen -> 0..RAND_MAX] : \A x, y \in 1..TapeLen : x # y => t[x] # t[y]}

\* what memory that was never written may hold
Junk == {123456, -654321}

\* psondim: dimensions-- on an unsigned short
Coords(entry, dimensions) ==
    IF entry = "psondim" THEN (dimensions - 1) % 65536 ELSE 2

coords == Coords(run.entry, call.dimensions)

\* the call has more coordinates than the caller's bounds array has rows:
\* init_particlendim reads bounds[i] past the end of the array
ReadsPastBounds == coords > Len(call.bounds)

\* the cells of a coordinate buffer whose contents are followed: all of them,
\* and none in a call that reads past the bounds before it writes any
Cells(entry, dimensions, bounds) ==
    IF Coords(entry, dimensions) > Len(bounds) THEN 0 ELSE Coords(entry, dimensions)

\* the number of particles of the swarm
N == IF Static(run.entry) THEN PSO3DIM_STATIC_PARTICLES ELSE call.particle_am

\* the next k values of rand()
Draws(k) == [j \in 1..k |-> tape[((rnd + j - 1) % TapeLen) + 1]]

\* the memory of a call before anything is written
Memory(entry, j, n, c) ==
    [entry |-> entry, junk |-> j,
     swarm |-> [a \in 0..(n - 1) |-> TParticle(c, j)],
     best_pos |-> [k \in 1..c |-> j],
     best_value |-> j,
     result |-> << >>]

Init ==
    /\ \E pair \in EntryPairs, j1 \in Junk, j2 \in Junk,
          f \in Functions, b \in BoundsSet, fit \in Fitnesses,
          d \in {0, 2, 3}, n \in (0..MaxParticles) \cup {PSO3DIM_STATIC_PARTICLES},
          m \in 0..MaxIter :
          /\ j1 # j2
          /\ pair[1] # "psondim" => d = 3
          /\ n = IF Static(pair[1]) THEN PSO3DIM_STATIC_PARTICLES ELSE n
          /\ ~Static(pair[1]) => n <= MaxParticles
          /\ call = [function |-> f, bounds |-> b, dimensions |-> d, fitness |-> fit,
                     particle_am |-> n, max_iter |-> m]
          /\ run = Memory(pair[1], j1, n, Cells(pair[1], d, b))
          /\ twin = Memory(pair[2], j2, n, Cells(pair[2], d, b))
          /\ pc = IF Static(pair[1]) THEN "init" ELSE "malloc_swarm"
    /\ tape \in Tapes
    /\ rnd = 0
    /\ i = 0
    /\ iter = 0
    /\ heap = [alloc |-> {}, frees |-> << >>]
    /\ ghost = [gwrites |-> 0, pwrites |-> [a \in 0..(N - 1) |-> 0], evals |-> 0,
                updates |-> 0, inited |-> 0, observed |-> {}, unset_reads |-> 0,
                settled |-> << >>, clamped |-> {}]

(***************************************************************************)
(* Evaluation of one particle (the body of the first inner loop).          *)
(***************************************************************************)
\* the condition of the personal best: fitness(value, best_val) || i == 0
better_personal(fit, value, best_val, it) == fitness(fit, value, best_val) \/ it = 0

\* whether the condition of the personal best reads best_val in iteration it:
\* fitness(value, swarm[a].best_val) is the left operand of ||, so it is
\* called, with best_val as its argument, before i == 0 is looked at
reads_best_val(it) == TRUE

\* a global best condition that lacks the test of the initial best_value
better_global_no_initial(fit, value, best_value) == fitness(fit, value, best_value)

\* the condition of the global best: fitness(value, best_value) || best_value == DBL_MAX
better_global(fit, value, best_value) == fitness(fit, value, best_value) \/ best_value = DBL_MAX

\* the memory r after particle a is evaluated in iteration it
evaluate(r, a, it) ==
    LET p == r.swarm[a]
        value == function(call.function, p.position)
    IN  IF better_personal(call.fitness, value, p.best_val, it)
        THEN LET r1 == [r EXCEPT !.swarm[a].best_val = value,
                                 !.swarm[a].best_pos = p.position]
             IN  IF better_global(call.fitness, value, r.best_value)
                 THEN [r1 EXCEPT !.best_value = value, !.best_pos = p.position]
                 ELSE r1
        ELSE r

\* the initialisation of particle a of the memory r, by the entry point
init_particle(r, a) ==
    LET c == Coords(r.entry, call.dimensions)
    IN  CASE r.entry = "psondim" ->
                 [r EXCEPT !.swarm[a] = init_particlendim(@, call.bounds, c, Draws(2 * c))]
          [] r.entry = "pso3dim_static_opt" ->
                 [r EXCEPT !.swarm[a] = init_particle_opt(@, call.bounds, Draws(4))]
          [] OTHER ->
                 [r EXCEPT !.swarm[a] = init_particle3dim(@, call.bounds, Draws(4))]

\* an update loop fused with the evaluation loop: the particle is evaluated
\* again as soon as it has moved
update_particle_and_evaluate(r, a) ==
    LET c == Coords(r.entry, call.dimensions)
        moved ==
            CASE r.entry = "psondim" ->
                     [r EXCEPT !.swarm[a] =
                          update_particlendim(@, call.bounds, r.best_pos, c, Draws(2))]
              [] OTHER ->
                     [r EXCEPT !.swarm[a] =
                          update_particle3dim(@, call.bounds, r.best_pos, Draws(2))]
    IN  evaluate(moved, a, iter + 1)

\* the update of particle a of the memory r, by the entry point
update_particle(r, a) ==
    LET c == Coords(r.entry, call.dimensions)
    IN  CASE r.entry = "psondim" ->
                 [r EXCEPT !.swarm[a] =
                      update_particlendim(@, call.bounds, r.best_pos, c, Draws(2))]
          [] r.entry = "pso3dim_static_opt" ->
                 [r EXCEPT !.swarm[a] =
                      update_particle_opt(@, call.bounds, r.best_pos, Draws(2))]
          [] OTHER ->
                 [r EXCEPT !.swarm[a] =
                      update_particle3dim(@, call.bounds, r.best_pos, Draws(2))]

(***************************************************************************)
(* The heap.                                                               *)
(***************************************************************************)
Block(name, a) == << name, a >>

SwarmBlock == Block("swarm", 0)

BestBlock == Block("best_pos", -1)

\* the buffers of the particles 0..(k-1), in the order the loops free them
RECURSIVE ParticleBuffers(_)
ParticleBuffers(k) ==
    IF k = 0 THEN << >>
    ELSE ParticleBuffers(k - 1) \o
         << Block("velocity", k - 1), Block("position", k - 1), Block("best_pos", k - 1) >>

Malloc(b) == [heap EXCEPT !.alloc = @ \cup {b}]

\* the number of elements the block b was allocated for: particle_am
\* particles for the swarm, `dimensions` doubles (after the decrement) for a
\* coordinate buffer of psondim, 2 doubles for the best_pos of pso3dim
BlockSize(b) == IF b = SwarmBlock THEN N ELSE coords

Free(blocks) == [heap EXCEPT !.frees = @ \o blocks]

\* what is freed when the allocation of the velocity of particle k fails
cleanup_velocity(k) == ParticleBuffers(k) \o << SwarmBlock >>

\* what is freed when the allocation of the position of particle k fails
cleanup_position(k) == << Block("velocity", k) >> \o ParticleBuffers(k) \o << SwarmBlock >>

\* a cleanup that forgets the position buffer of the particle being built
cleanup_best_pos_leak(k) ==
    << Block("velocity", k) >> \o ParticleBuffers(k) \o << SwarmBlock >>

\* what is freed when the allocation of the best_pos of particle k fails
cleanup_best_pos(k) ==
    << Block("velocity", k), Block("position", k) >> \o ParticleBuffers(k) \o << SwarmBlock >>

\* what is freed when the allocation of the global best position fails
cleanup_best(entry, n) ==
    IF entry = "psondim" THEN ParticleBuffers(n) \o << SwarmBlock >> ELSE << SwarmBlock >>

\* what is freed before the return
cleanup_return(entry, n) ==
    CASE entry = "psondim" -> ParticleBuffers(n) \o << SwarmBlock >>
      [] entry = "pso3dim" -> << SwarmBlock >>
      [] OTHER -> << >>

(***************************************************************************)
(* The steps of a call.                                                    *)
(***************************************************************************)
\* where the initialisation loop continues with particle k
InitLoop(k) ==
    IF k < N THEN (IF run.entry = "psondim" THEN "malloc_velocity" ELSE "init") ELSE "best"

\* swarm = malloc(sizeof(...) * particle_am), and error_handler() when it fails
MallocSwarm ==
    /\ pc = "malloc_swarm"
    /\ \E ok \in BOOLEAN :
          IF ok THEN /\ heap' = Malloc(SwarmBlock)
                     /\ pc' = InitLoop(0)
                ELSE /\ heap' = heap
                     /\ pc' = "error"
    /\ UNCHANGED << call, tape, rnd, i, iter, run, twin, ghost >>

\* psondim: swarm[i].velocity = malloc(...)
MallocVelocity ==
    /\ pc = "malloc_velocity"
    /\ \E ok \in BOOLEAN :
          IF ok THEN /\ heap' = Malloc(Block("velocity", i))
                     /\ pc' = "malloc_position"
                ELSE /\ heap' = Free(cleanup_velocity(i))
                     /\ pc' = "error"
    /\ UNCHANGED << call, tape, rnd, i, iter, run, twin, ghost >>

\* psondim: swarm[i].position = malloc(...)
MallocPosition ==
    /\ pc = "malloc_position"
    /\ \E ok \in BOOLEAN :
          IF ok THEN /\ heap' = Malloc(Block("position", i))
                     /\ pc' = "malloc_best_pos"
                ELSE /\ heap' = Free(cleanup_position(i))
                     /\ pc' = "error"
    /\ UNCHANGED << call, tape, rnd, i, iter, run, twin, ghost >>

\* psondim: swarm[i].best_pos = malloc(...)
MallocBestPos ==
    /\ pc = "malloc_best_pos"
    /\ \E ok \in BOOLEAN :
          IF ok THEN /\ heap' = Malloc(Block("best_pos", i))
                     /\ pc' = "init"
                ELSE /\ heap' = Free(cleanup_best_pos(i))
                     /\ pc' = "error"
    /\ UNCHANGED << call, tape, rnd, i, iter, run, twin, ghost >>

\* the initialisation of particle i; a read past the end of the bounds array
\* is undefined behaviour, after which nothing is known of the call
InitParticle ==
    /\ pc = "init"
    /\ IF ReadsPastBounds
       THEN /\ pc' = "undefined"
            /\ UNCHANGED << run, twin, rnd, i, ghost >>
       ELSE /\ run' = init_particle(run, i)
            /\ twin' = init_particle(twin, i)
            /\ rnd' = (rnd + 2 * coords) % TapeLen
            /\ i' = i + 1
            /\ pc' = InitLoop(i + 1)
            /\ ghost' = [ghost EXCEPT !.inited = @ + 1]
    /\ UNCHANGED << call, tape, iter, heap >>

\* where the iteration loop starts
EnterLoop == IF call.max_iter > 0 /\ N > 0 THEN "eval" ELSE "return"

\* the global best: best_pos = malloc(...) in pso3dim and psondim, the array
\* {0.0, 0.0} in the static entry points, and best_value = DBL_MAX
DeclareBest ==
    /\ pc = "best"
    /\ \E ok \in BOOLEAN :
          IF Static(run.entry)
          THEN /\ ok
               /\ heap' = heap
               /\ run' = [run EXCEPT !.best_pos = << 0, 0 >>, !.best_value = DBL_MAX]
               /\ twin' = [twin EXCEPT !.best_pos = << 0, 0 >>, !.best_value = DBL_MAX]
               /\ pc' = EnterLoop
          ELSE IF ok
          THEN /\ heap' = Malloc(BestBlock)
               /\ run' = [run EXCEPT !.best_value = DBL_MAX]
               /\ twin' = [twin EXCEPT !.best_value = DBL_MAX]
               /\ pc' = EnterLoop
          ELSE /\ heap' = Free(cleanup_best(run.entry, N))
               /\ UNCHANGED << run, twin >>
               /\ pc' = "error"
    /\ i' = 0
    /\ iter' = IF call.max_iter > 0 /\ N = 0 THEN call.max_iter ELSE 0
    /\ UNCHANGED << call, tape, rnd, ghost >>

\* the evaluation of particle i in iteration iter
Evaluate ==
    /\ pc = "eval"
    /\ run' = evaluate(run, i, iter)
    /\ twin' = evaluate(twin, i, iter)
    /\ LET p == run.swarm[i]
           value == function(call.function, p.position)
           personal == better_personal(call.fitness, value, p.best_val, iter)
           global == personal /\ better_global(call.fitness, value, run.best_value)
       IN  ghost' = [ghost EXCEPT !.evals = @ + 1,
                                  !.observed = @ \cup {<< p.position, value >>},
                                  !.settled =
                                      IF i + 1 < N THEN @
                                      ELSE << evaluate(run, i, iter).best_pos,
                                              evaluate(run, i, iter).best_value >>,
                                  !.unset_reads =
                                      IF reads_best_val(iter) /\ ghost.pwrites[i] = 0
                                      THEN @ + 1 ELSE @,
                                  !.pwrites[i] = IF personal THEN @ + 1 ELSE @,
                                  !.gwrites = IF global THEN @ + 1 ELSE @]
    /\ IF i + 1 < N THEN /\ i' = i + 1
                         /\ pc' = "eval"
                    ELSE /\ i' = 0
                         /\ pc' = "update"
    /\ UNCHANGED << call, tape, rnd, iter, heap >>

\* an iteration loop that runs the body once more than max_iter
NextIteration_once_more(it) == IF it <= call.max_iter THEN "eval" ELSE "return"

\* where the iteration loop continues after iteration it - 1: i < max_iter
NextIteration(it) == IF it < call.max_iter THEN "eval" ELSE "return"

\* the update of particle i in iteration iter
Update ==
    /\ pc = "update"
    /\ run' = update_particle(run, i)
    /\ twin' = update_particle(twin, i)
    /\ rnd' = (rnd + 2) % TapeLen
    /\ LET p == run.swarm[i]
           q == update_particle(run, i).swarm[i]
           low == \E k \in 1..coords : p.position[k] + q.velocity[k] < call.bounds[k][1]
           high == \E k \in 1..coords : p.position[k] + q.velocity[k] > call.bounds[k][2]
       IN  ghost' = [ghost EXCEPT !.updates = @ + 1,
                                  !.clamped = @ \cup (IF low THEN {"min"} ELSE {})
                                                \cup (IF high THEN {"max"} ELSE {})]
    /\ IF i + 1 < N
       THEN /\ i' = i + 1
            /\ pc' = "update"
            /\ iter' = iter
       ELSE /\ i' = 0
            /\ iter' = iter + 1
            /\ pc' = NextIteration(iter + 1)
    /\ UNCHANGED << call, tape, heap >>

\* free the swarm and return best_pos
Return ==
    /\ pc = "return"
    /\ heap' = Free(cleanup_return(run.entry, N))
    /\ run' = [run EXCEPT !.result = run.best_pos]
    /\ twin' = [twin EXCEPT !.result = twin.best_pos]
    /\ pc' = "done"
    /\ UNCHANGED << call, tape, rnd, i, iter, ghost >>

Next ==
    \/ MallocSwarm
    \/ MallocVelocity
    \/ MallocPosition
    \/ MallocBestPos
    \/ InitParticle
    \/ DeclareBest
    \/ Evaluate
    \/ Update
    \/ Return

Spec == Init /\ [][Next]_vars

(***************************************************************************)
(* Properties.                                                             *)
(***************************************************************************)
Particles == 0..(N - 1)

\* the call breaks the contract of the entry point
ContractViolation ==
    \/ ReadsPastBounds
    \/ ~WellFormed(call.bounds, coords)
    \/ N = 0

\* the call keeps the contract: min_d <= max_d and at least one particle
ValidCall == ~ContractViolation

\* the particles the initialisation loop has passed
Initialised == {a \in Particles : a < ghost.inited}

InBounds(p) ==
    \A k \in 1..coords : /\ call.bounds[k][1] <= p.position[k]
                         /\ p.position[k] <= call.bounds[k][2]

\* C1: with bounds min_d <= max_d, every coordinate of the position of every
\* initialised particle lies within its bounds, after the initialisation and
\* after every update.
C1_BoundsInvariant ==
    WellFormed(call.bounds, coords) => \A a \in Initialised : InBounds(run.swarm[a])

\* C2: every write of the global best is the first one of the call or installs
\* a value that the fitness function prefers to the value it replaces.
C2_MonotonicGlobalBest ==
    [][(ValidCall /\ ghost'.gwrites = ghost.gwrites + 1) =>
          \/ ghost.gwrites = 0
          \/ fitness(call.fitness, run'.best_value, run.best_value)]_vars

\* C3: for every particle whose best_val has been written, the global best
\* value is preferred to it by the fitness function or equal to it.
C3_PersonalBestDominance ==
    \A a \in Particles :
        (ValidCall /\ ghost.pwrites[a] > 0) =>
            \/ fitness(call.fitness, run.best_value, run.swarm[a].best_val)
            \/ run.best_value = run.swarm[a].best_val

\* an evaluation phase has just been completed
PhaseEvaluated == pc = "update" /\ i = 0

\* C4: after a completed evaluation phase, with a strict fitness function, no
\* value the function returned so far is preferred to the global best value,
\* and the global best position is one at which the function returned it.
C4_GlobalBestIsBestObserved ==
    (ValidCall /\ call.fitness \in StrictFitnesses /\ PhaseEvaluated) =>
        /\ \A o \in ghost.observed : ~fitness(call.fitness, o[2], run.best_value)
        /\ << run.best_pos, run.best_value >> \in ghost.observed

\* C5: a call with max_iter = 0 returns the initial position of a particle of
\* the swarm, and never runs the update step.
C5_ZeroIterations ==
    (ValidCall /\ call.max_iter = 0 /\ pc = "done") =>
        /\ \E a \in Particles : run.result = run.swarm[a].position
        /\ ghost.updates = 0

\* how many times the block b was passed to free
FreeCount(b) == Cardinality({k \in 1..Len(heap.frees) : heap.frees[k] = b})

\* C6: when error_handler is called, every block malloc returned in this call
\* has been freed exactly once, nothing else has been freed, and the call takes
\* no further step.
C6_AllocationFailureReleasesAll ==
    pc = "error" =>
        /\ \A b \in heap.alloc : FreeCount(b) = 1
        /\ \A k \in 1..Len(heap.frees) : heap.frees[k] \in heap.alloc
        /\ ~ENABLED Next

\* the allocation of the best_pos of the second particle of psondim failed
C6_Witness ==
    /\ pc = "error"
    /\ run.entry = "psondim"
    /\ Block("position", 1) \in heap.alloc
    /\ Block("best_pos", 1) \notin heap.alloc

\* C7: a call with malformed bounds or no particle is rejected before anything
\* is allocated, any particle initialised or the function evaluated.
C7_ContractViolationsRejected ==
    ContractViolation =>
        /\ heap.alloc = {}
        /\ ghost.inited = 0
        /\ ghost.evals = 0

\* the call and its twin agree on everything either has written so far
SameTrajectory ==
    /\ \A a \in Initialised :
          /\ run.swarm[a].position = twin.swarm[a].position
          /\ run.swarm[a].velocity = twin.swarm[a].velocity
          /\ ghost.pwrites[a] > 0 =>
                /\ run.swarm[a].best_val = twin.swarm[a].best_val
                /\ run.swarm[a].best_pos = twin.swarm[a].best_pos
    /\ ghost.gwrites > 0 =>
          /\ run.best_value = twin.best_value
          /\ run.best_pos = twin.best_pos
    /\ pc = "done" => run.result = twin.result

\* C8: on two coordinates, pso3dim and psondim given the same values of rand()
\* and the same arguments have the same swarm after the initialisation and
\* after every step, and return the same position.
C8_Equivalence2DnD ==
    (ValidCall /\ run.entry = "pso3dim" /\ twin.entry = "psondim") => SameTrajectory

\* C9: two calls of the same entry point with the same arguments and the same
\* values of rand() have the same trajectory and return the same position.
C9_Determinism ==
    (ValidCall /\ run.entry = twin.entry) => SameTrajectory

\* C10: with one particle and max_iter >= 1, from the first evaluation on the
\* global best value and position are the particle's personal best ones.
C10_SingleParticle ==
    (N = 1 /\ call.max_iter >= 1 /\ ghost.evals >= 1) =>
        /\ run.best_value = run.swarm[0].best_val
        /\ run.best_pos = run.swarm[0].best_pos

\* the single particle improved its personal best in a later iteration
C10_Witness ==
    /\ N = 1
    /\ call.max_iter >= 1
    /\ ghost.pwrites[0] >= 2
    /\ pc = "done"

\* a call that is running: it has neither returned nor called error_handler
\* nor left the defined behaviour
Running == pc \notin {"done", "error", "undefined"}

\* the steps one particle takes in the initialisation loop
InitSteps == IF run.entry = "psondim" THEN 4 ELSE 1

\* the steps a call whose allocations succeed still has to take, at most
StepsLeft ==
    LET loop == 2 + 2 * N * call.max_iter
        rest == InitSteps * (N - i)
    IN  CASE pc = "malloc_swarm" -> loop + InitSteps * N + 1
          [] pc = "malloc_velocity" -> loop + rest
          [] pc = "malloc_position" -> loop + rest - 1
          [] pc = "malloc_best_pos" -> loop + rest - 2
          [] pc = "init" -> loop + rest - (InitSteps - 1)
          [] pc = "best" -> loop
          [] pc = "eval" -> 1 + 2 * N * (call.max_iter - iter) - i
          [] pc = "update" -> 1 + 2 * N * (call.max_iter - iter) - N - i
          [] pc = "return" -> 1
          [] OTHER -> 0

\* the iterations and the calls of the function counted so far
C11_Counts ==
    /\ iter <= call.max_iter
    /\ StepsLeft >= 0
    /\ Running <=> StepsLeft > 0
    /\ pc = "eval" => /\ iter < call.max_iter
                      /\ ghost.evals = iter * N + i
                      /\ ghost.updates = iter * N
    /\ pc = "update" => /\ iter < call.max_iter
                        /\ ghost.evals = (iter + 1) * N
                        /\ ghost.updates = iter * N + i
    /\ pc \in {"return", "done"} => /\ iter = call.max_iter
                                    /\ ghost.evals = N * call.max_iter
                                    /\ ghost.updates = N * call.max_iter
    /\ pc = "error" => ghost.evals = 0

\* C11: every call ends after finitely many steps (every step lowers the
\* number StepsLeft, which is never negative and is 0 only when the call has
\* returned, called error_handler or read past its bounds), and a call whose allocations succeed
\* returns after exactly max_iter iterations: in iteration iter the function
\* has been called once for every particle of the earlier iterations and for
\* the particles 0..i-1 of this one, every update of an iteration follows all
\* its evaluations, at the return the function has been called exactly
\* N * max_iter times and the update has run as often, and error_handler is
\* only called before the first evaluation.
C11_RunsToCompletion == []C11_Counts /\ [][StepsLeft' < StepsLeft]_vars

\* a call of two particles and two iterations has returned, although the
\* function returned DBL_MAX for some position
C11_Witness ==
    /\ pc = "done"
    /\ N = 2
    /\ call.max_iter = 2
    /\ ghost.evals = 4
    /\ \E o \in ghost.observed : o[2] = DBL_MAX

\* C12: every coordinate buffer psondim allocates (velocity, position and
\* best_pos of every particle and the returned best_pos) has exactly
\* dimensions - 1 entries, which is not more than `dimensions`, and the call
\* reads no row of bounds past the first dimensions - 1.
C12_CoordinateCount ==
    (run.entry = "psondim" /\ N > 0) =>
        /\ \A b \in heap.alloc \ {SwarmBlock} :
               /\ BlockSize(b) = call.dimensions - 1
               /\ BlockSize(b) <= call.dimensions
        /\ pc # "undefined"

\* C13: the best_val of a particle is never read (compared, or passed to the
\* fitness function) before the first evaluation of the particle has written
\* it.
C13_NoUnsetRead == ValidCall => ghost.unset_reads = 0

\* C14: while particle i is evaluated in iteration iter, every update of the
\* earlier iterations has been made and none of this one; while particle i is
\* updated, every evaluation of the iteration has been made, and the global
\* best position and value are the ones the evaluation phase of the iteration
\* ended with, so every update of the iteration reads the same global best
\* and no update changes it.
C14_Barrier ==
    /\ pc = "eval" => /\ ghost.evals = iter * N + i
                      /\ ghost.updates = iter * N
    /\ pc = "update" => /\ ghost.evals = (iter + 1) * N
                        /\ ghost.updates = iter * N + i
                        /\ << run.best_pos, run.best_value >> = ghost.settled

\* the second particle is about to be updated in the second iteration, whose
\* evaluation phase moved the global best
C14_Witness ==
    /\ pc = "update"
    /\ i = 1
    /\ iter = 1
    /\ ghost.gwrites >= 2
    /\ run.best_pos # run.swarm[0].best_pos

\* C15: before any evaluation, every initialised particle of every entry
\* point has best_pos[d] = position[d], a velocity[d] in [-1, 1] and a
\* position[d] in [min_d, max_d], in every dimension d.
C15_InitSetsBestPosition ==
    (ValidCall /\ ghost.evals = 0) =>
        \A a \in Initialised :
            /\ run.swarm[a].best_pos = run.swarm[a].position
            /\ \A k \in 1..coords : /\ -Unit <= run.swarm[a].velocity[k]
                                     /\ run.swarm[a].velocity[k] <= Unit
            /\ InBounds(run.swarm[a])

\* C16: in a call with min_d <= max_d, the update of particle i sets, in every
\* dimension d, velocity[d] to COEFF_W * velocity[d] + rp * diff + rg * diff
\* with diff = best_pos[d] - position[d], and position[d] to min_d if
\* position[d] + velocity[d] is below min_d, to max_d if it is above max_d and
\* to the sum otherwise; the velocity is the computed one in all three cases,
\* and the personal best of the particle, the global best and the other
\* particles are unchanged.
C16_ClampLeavesVelocity ==
    [][(ValidCall /\ pc = "update") =>
          LET p == run.swarm[i]
              q == run'.swarm[i]
              rp == FMul(random_double(0, Unit, Draws(2)[1]), COEFF_CP)
              rg == FMul(random_double(0, Unit, Draws(2)[2]), COEFF_CG)
          IN  /\ \A k \in 1..coords :
                     LET diff == run.best_pos[k] - p.position[k]
                         v == FMul(COEFF_W, p.velocity[k]) + FMul(rp, diff) + FMul(rg, diff)
                         sum == p.position[k] + v
                         min == call.bounds[k][1]
                         max == call.bounds[k][2]
                     IN  /\ q.velocity[k] = v
                         /\ sum < min => q.position[k] = min
                         /\ sum > max => q.position[k] = max
                         /\ (min <= sum /\ sum <= max) => q.position[k] = sum
              /\ q.best_pos = p.best_pos
              /\ q.best_val = p.best_val
              /\ run'.best_pos = run.best_pos
              /\ run'.best_value = run.best_value
              /\ \A a \in Particles \ {i} : run'.swarm[a] = run.swarm[a]]_vars

\* updates of a call with min_d <= max_d have pinned a coordinate at its
\* minimum and one at its maximum, and a particle stands at a maximum with a
\* velocity that still points outwards
C16_Witness ==
    /\ ValidCall
    /\ ghost.clamped = {"min", "max"}
    /\ \E a \in Particles, k \in 1..coords :
          /\ run.swarm[a].position[k] = call.bounds[k][2]
          /\ run.swarm[a].velocity[k] > 0

=============================================================================
